---- MODULE Spec2Model ----
(***************************************************************************)
(* A model of fastText's orchestration engine (src/src/fasttext.cc):       *)
(* FastText::train with its worker threads (trainThread), the binary       *)
(* model persistence (saveModel / loadModel), the streaming predict and    *)
(* test, the three objectives (supervised, cbow, skipgram), the import of  *)
(* pretrained vectors (loadVectors) and the vector export (getVector,      *)
(* printVectors).                                                          *)
(*                                                                         *)
(* The collaborators Args, Dictionary, Matrix, Vector and Model are not    *)
(* part of fasttext.cc; what the model needs of them is written down from  *)
(* the specification of the repository and kept in separate definitions.   *)
(***************************************************************************)
EXTENDS Integers, Sequences, FiniteSets, TLC

(***************************************************************************)
(* Bounds of the model.                                                    *)
(***************************************************************************)
MaxThread == 2          \* args_->thread ranges over 1..MaxThread
MaxEpoch == 1           \* args_->epoch ranges over 1..MaxEpoch
MaxLines == 2           \* the training file has 0..MaxLines lines
MaxLrUpdateRate == 1    \* args_->lrUpdateRate ranges over 0..MaxLrUpdateRate
MaxFileSize == 12       \* Corpus Partitioner: file sizes 0..MaxFileSize
MaxWorkers == 5         \* Corpus Partitioner: worker counts 1..MaxWorkers
MaxLineLen == 3         \* objectives: lines of 0..MaxLineLen token ids
MaxTokenId == 2         \* objectives: token ids 1..MaxTokenId
MaxLabelSet == 2        \* objectives: label sets of 0..MaxLabelSet labels
MaxWs == 2              \* objectives: args_->ws ranges over 1..MaxWs
MaxExamples == 3        \* predict: input streams of 0..MaxExamples lines
MaxK == 2               \* predict: k ranges over 1..MaxK
MaxVocab == 2           \* persistence: vocabularies of 0..MaxVocab words
MaxDim == 1             \* persistence: args_->dim ranges over 1..MaxDim
MaxBucket == 1          \* persistence: args_->bucket ranges over 1..MaxBucket
MaxTestLines == 2       \* test: labeled streams of 0..MaxTestLines lines
MaxTestLineLen == 2     \* test: lines of 0..MaxTestLineLen words
MaxWordNgrams == 2      \* test: args_->wordNgrams ranges over 1..MaxWordNgrams
MaxFileRows == 2        \* loadVectors: pretrained files of 0..MaxFileRows rows
MaxStdinLines == 2      \* printVectors: 0..MaxStdinLines lines on standard input
MaxStdinLineLen == 2    \* printVectors: lines of 0..MaxStdinLineLen words

VARIABLES
    \* ---- FastText object and process state of a train run ----
    args_,        \* the configuration handed to train
    dict_,        \* the vocabulary: counts only
    input_,       \* the input matrix  (object id and shape; id 0 = not allocated)
    output_,      \* the output matrix (object id and shape; id 0 = not allocated)
    model_,       \* the canonical optimizer (made = FALSE: not constructed)
    tokenCount,   \* the global token counter
    pc,           \* position of the thread that runs train
    nthreads,     \* number of std::thread objects pushed to `threads`
    njoined,      \* number of threads joined so far
    worker,       \* per worker id: the locals of trainThread
    corpus,       \* the training file: tokens per line
    disk,         \* which output files have been written, and the calls made
    atomicAdd,    \* whether `tokenCount += n` is one indivisible step
    \* ---- the other operations, each on the state it works on ----
    part,         \* Corpus Partitioner: file size, worker count, offsets computed
    pred,         \* streaming predict: input left, predictions vector, output
    pers,         \* saveModel / loadModel: saved object, stream, loading object
    obj,          \* objectives: the line, the draws and the optimizer updates
    tst,          \* test: the labeled stream left and the counters
    imp,          \* loadVectors: the pretrained file, the vocabulary, the matrix
    qry           \* getVector / printVectors: the object, the input, the output

trainVars == <<args_, dict_, input_, output_, model_, tokenCount, pc,
               nthreads, njoined, worker, corpus, disk, atomicAdd>>

aux == <<part, pred, pers, obj, tst, imp, qry>>

vars == <<trainVars, aux>>

Models == {"sup", "cbow", "sg"}
Threads == 0 .. (MaxThread - 1)

(***************************************************************************)
(* The training file.  Every token takes two bytes (one character and the *)
(* blank or newline that ends it); line l holds TokensIn(l) tokens.        *)
(***************************************************************************)
TokensIn(l) == 1 + ((l + 1) % 2)

Corpus(n) == [l \in 1 .. n |-> TokensIn(l)]

RECURSIVE SumSeq(_)
SumSeq(s) == IF s = <<>> THEN 0 ELSE Head(s) + SumSeq(Tail(s))

\* utils::size: the size of the file in bytes
FileSize(c) == 2 * SumSeq(c)

\* first byte after line l
LineEnd(c, l) == 2 * SumSeq(SubSeq(c, 1, l))

\* the line that holds byte position p (p < FileSize(c))
LineAt(c, p) == CHOOSE l \in 1 .. Len(c) : LineEnd(c, l) > p /\ LineEnd(c, l) - 2 * c[l] <= p

\* Dictionary::getLine on a per-thread stream at byte position p: at end of
\* file the stream is rewound to position 0; the rest of the current line
\* is consumed and the number of tokens read is returned (a token cut by the
\* seek still counts as a token).
GetLine(c, p) ==
    LET q == IF p >= FileSize(c) THEN 0 ELSE p
        e == LineEnd(c, LineAt(c, q))
    IN  [from    |-> q,
         to      |-> e,
         ntokens |-> (e - q + 1) \div 2,
         rewound |-> (p >= FileSize(c))]

\* Dictionary::readFromFile: the counts of the vocabulary built from the file.
\* Token j of a line is the word w_j; a supervised corpus carries one label.
ReadFromFile(c, model) ==
    [ntokens |-> SumSeq(c),
     nwords  |-> Cardinality(UNION {1 .. c[l] : l \in 1 .. Len(c)}),
     nlabels |-> IF model = "sup" /\ Len(c) > 0 THEN 1 ELSE 0]

(***************************************************************************)
(* Objects.                                                                *)
(***************************************************************************)
NoMatrix == [id |-> 0, m |-> 0, n |-> 0]

\* std::make_shared<Matrix>(m, n): a new object
NewMatrix(id, m, n) == [id |-> id, m |-> m, n |-> n]

NoModel == [made |-> FALSE, wi |-> 0, wo |-> 0, threadId |-> 0, counts |-> "none"]

\* Model(input_, output_, args_, threadId): bound to the two matrices, no
\* target counts yet
NewModel(wi, wo, threadId) ==
    [made |-> TRUE, wi |-> wi.id, wo |-> wo.id, threadId |-> threadId, counts |-> "none"]

\* model.setTargetCounts(dict_->getCounts(type))
SetTargetCounts(mdl, type) == [mdl EXCEPT !.counts = type]

\* the entry type whose counts the objective samples targets from
TargetType(model) == IF model = "sup" THEN "label" ELSE "word"

NoWorker ==
    [pcw |-> "none", model |-> NoModel, first |-> 0, pos |-> 0, bytes |-> {},
     rewinds |-> 0, localTokenCount |-> 0, progress |-> 0, lr |-> 0,
     updated |-> FALSE, loaded |-> 0, periodic |-> FALSE, final |-> <<>>,
     tokensRead |-> 0]

ArgsSet ==
    [input : {"-", "corpus.txt"}, pretrainedVectors : {"", "pre.vec"},
     model : Models, thread : 1 .. MaxThread, epoch : 1 .. MaxEpoch,
     lr : {1}, lrUpdateRate : 0 .. MaxLrUpdateRate, verbose : {0, 1, 2},
     dim : {1}, bucket : {1}]

\* epoch * ntokens: the token budget of the run
Budget == args_.epoch * dict_.ntokens

InitTrain ==
    /\ args_ \in ArgsSet
    /\ atomicAdd \in BOOLEAN
    /\ dict_ = [ntokens |-> 0, nwords |-> 0, nlabels |-> 0]
    /\ input_ = NoMatrix
    /\ output_ = NoMatrix
    /\ model_ = NoModel
    /\ tokenCount = 0
    /\ pc = "train"
    /\ nthreads = 0
    /\ njoined = 0
    /\ worker = [i \in Threads |-> NoWorker]
    /\ corpus = <<>>
    /\ disk = [bin |-> <<>>, vec |-> FALSE, saveModelCalls |-> 0,
               saveVectorsCalls |-> 0]
    /\ part = [phase |-> "off"]
    /\ pred = [phase |-> "off"]
    /\ pers = [phase |-> "off"]
    /\ obj = [phase |-> "off"]
    /\ tst = [phase |-> "off"]
    /\ imp = [phase |-> "off"]
    /\ qry = [phase |-> "off"]

(***************************************************************************)
(* FastText::loadVectors, as far as train depends on it: the outcome of    *)
(* opening and of the dimension test, the vocabulary growing by the words  *)
(* of the file, and the input matrix allocated afterwards.  `file` is the  *)
(* state of the pretrained-vectors file; a good file lists one word that   *)
(* the corpus lacks, and dict_->threshold(1, 0) removes no word.           *)
(***************************************************************************)
LoadVectors(file, d, a) ==
    IF file = "unopenable" THEN [ok |-> FALSE, dict |-> d, input |-> NoMatrix]
    ELSE IF file = "otherdim" THEN [ok |-> FALSE, dict |-> d, input |-> NoMatrix]
    ELSE LET d2 == [d EXCEPT !.nwords = @ + 1]
         IN  [ok |-> TRUE, dict |-> d2,
              input |-> NewMatrix(2, d2.nwords + a.bucket, a.dim)]

(***************************************************************************)
(* FastText::train, lines 330-366: everything before the workers start.    *)
(* exit(EXIT_FAILURE) ends the process: pc = "exit".                       *)
(***************************************************************************)
TrainSetup ==
    /\ pc = "train"
    /\ \E opens \in BOOLEAN, n \in 0 .. MaxLines,
          file \in {"unopenable", "otherdim", "good"} :
          LET c  == Corpus(n)
              d  == ReadFromFile(c, args_.model)
              lv == LoadVectors(file, d, args_)
              d2 == IF args_.pretrainedVectors # "" THEN lv.dict ELSE d
              wi == IF args_.pretrainedVectors # "" THEN lv.input
                    ELSE NewMatrix(1, d.nwords + args_.bucket, args_.dim)
              wo == IF args_.model = "sup"
                    THEN NewMatrix(wi.id + 1, d2.nlabels, args_.dim)
                    ELSE NewMatrix(wi.id + 1, d2.nwords, args_.dim)
          IN  IF args_.input = "-" \/ ~opens
              THEN /\ pc' = "exit"
                   /\ UNCHANGED <<dict_, input_, output_, corpus, tokenCount>>
              ELSE IF args_.pretrainedVectors # "" /\ ~lv.ok
              THEN /\ pc' = "exit"
                   /\ dict_' = d
                   /\ corpus' = c
                   /\ UNCHANGED <<input_, output_, tokenCount>>
              ELSE /\ pc' = "spawn"
                   /\ dict_' = d2
                   /\ corpus' = c
                   /\ input_' = wi
                   /\ output_' = wo
                   /\ tokenCount' = 0
    /\ UNCHANGED <<args_, model_, nthreads, njoined, worker, disk, atomicAdd, aux>>

\* lines 367-370: one std::thread is created and starts to run trainThread
Spawn ==
    /\ pc = "spawn"
    /\ worker' = [worker EXCEPT ![nthreads].pcw = "start"]
    /\ nthreads' = nthreads + 1
    /\ pc' = IF nthreads + 1 < args_.thread THEN "spawn" ELSE "join"
    /\ UNCHANGED <<args_, dict_, input_, output_, model_, tokenCount, njoined,
                   corpus, disk, atomicAdd, aux>>

\* faulty variant: join does not wait for the thread to finish
JoinNoWait ==
    /\ pc = "join"
    /\ njoined' = njoined + 1
    /\ pc' = IF njoined + 1 < nthreads THEN "join" ELSE "model"
    /\ UNCHANGED <<args_, dict_, input_, output_, model_, tokenCount, nthreads,
                   worker, corpus, disk, atomicAdd, aux>>

\* lines 371-373: join returns when the thread has finished
Join ==
    /\ pc = "join"
    /\ worker[njoined].pcw = "done"
    /\ njoined' = njoined + 1
    /\ pc' = IF njoined + 1 < nthreads THEN "join" ELSE "model"
    /\ UNCHANGED <<args_, dict_, input_, output_, model_, tokenCount, nthreads,
                   worker, corpus, disk, atomicAdd, aux>>

\* line 374
MakeModel ==
    /\ pc = "model"
    /\ model_' = NewModel(input_, output_, 0)
    /\ pc' = "saveModel"
    /\ UNCHANGED <<args_, dict_, input_, output_, tokenCount, nthreads, njoined,
                   worker, corpus, disk, atomicAdd, aux>>

\* the order in which saveModel writes the components (lines 54-57)
SaveOrder == <<"args", "dict", "input", "output">>

\* line 376 and lines 48-59
SaveModel ==
    /\ pc = "saveModel"
    /\ \E opens \in BOOLEAN :
          IF ~opens
          THEN /\ disk' = [disk EXCEPT !.saveModelCalls = @ + 1]
               /\ pc' = "exit"
          ELSE /\ disk' = [disk EXCEPT !.bin = SaveOrder, !.saveModelCalls = @ + 1]
               /\ pc' = IF args_.model # "sup" THEN "saveVectors" ELSE "done"
    /\ UNCHANGED <<args_, dict_, input_, output_, model_, tokenCount, nthreads,
                   njoined, worker, corpus, atomicAdd, aux>>

\* lines 377-379 and lines 32-46
SaveVectors ==
    /\ pc = "saveVectors"
    /\ \E opens \in BOOLEAN :
          IF ~opens
          THEN /\ disk' = [disk EXCEPT !.saveVectorsCalls = @ + 1]
               /\ pc' = "exit"
          ELSE /\ disk' = [disk EXCEPT !.vec = TRUE, !.saveVectorsCalls = @ + 1]
               /\ pc' = "done"
    /\ UNCHANGED <<args_, dict_, input_, output_, model_, tokenCount, nthreads,
                   njoined, worker, corpus, atomicAdd, aux>>

(***************************************************************************)
(* FastText::trainThread(threadId).  One action per access to the shared   *)
(* counter; the statements between two accesses touch only the worker's    *)
(* own stream, its own optimizer and its locals.                           *)
(***************************************************************************)
\* faulty variant: the offset of the next worker
OffsetOfNext(threadId, size, nthr) == ((threadId + 1) * size) \div nthr

\* line 250: the byte offset the worker seeks to
Offset(threadId, size, nthr) == (threadId * size) \div nthr

trainUnchanged == <<args_, dict_, input_, output_, model_, pc, nthreads, njoined,
                    corpus, disk, atomicAdd, aux>>

\* faulty variant: the stream is opened and never positioned
ThreadStartNoSeek(i) ==
    /\ worker[i].pcw = "start"
    /\ LET off == Offset(i, FileSize(corpus), args_.thread)
       IN  worker' = [worker EXCEPT
             ![i].pcw = "while",
             ![i].first = off,
             ![i].pos = 0,
             ![i].model = SetTargetCounts(NewModel(input_, output_, i),
                                          TargetType(args_.model)),
             ![i].localTokenCount = 0]
    /\ UNCHANGED <<tokenCount, trainUnchanged>>

\* lines 249-261
ThreadStart(i) ==
    /\ worker[i].pcw = "start"
    /\ LET off == Offset(i, FileSize(corpus), args_.thread)
       IN  worker' = [worker EXCEPT
             ![i].pcw = "while",
             ![i].first = off,
             ![i].pos = off,
             ![i].model = SetTargetCounts(NewModel(input_, output_, i),
                                          TargetType(args_.model)),
             ![i].localTokenCount = 0]
    /\ UNCHANGED <<tokenCount, trainUnchanged>>

\* line 262: the loop test reads the shared counter
LoopTest(i) ==
    /\ worker[i].pcw = "while"
    /\ worker' = [worker EXCEPT
          ![i].pcw = IF tokenCount < Budget THEN "body" ELSE "exit",
          \* progress and lr are locals of the loop body: a new iteration
          \* (or the end of the loop) holds none of the previous one
          ![i].progress = 0,
          ![i].lr = 0,
          ![i].updated = FALSE,
          ![i].periodic = FALSE]
    /\ UNCHANGED <<tokenCount, trainUnchanged>>

\* whether the objective issues at least one optimizer update for a line of
\* n tokens (lines 267-274; skip-gram needs a context position)
IssuesUpdate(model, n) == IF model = "sg" THEN n >= 2 ELSE n >= 1

\* line 264, as a numerator over Budget:
\* args_->lr * (1.0 - progress) = lr * (Budget - count) / Budget
\* tokensRead, the tokens getLine has returned to a worker, is counted up to
\* this value, which no worker of train reaches
TokensReadCap == MaxThread * (Budget + args_.lrUpdateRate + 2)

LearningRate(baseLr, count, budget) == baseLr * (budget - count)

\* faulty variant: the local count is flushed as soon as it reaches
\* lrUpdateRate
IterateFlushAtRate(i) ==
    /\ worker[i].pcw = "body"
    /\ LET w == worker[i]
           g == GetLine(corpus, w.pos)
           n == w.localTokenCount + g.ntokens
       IN  worker' = [worker EXCEPT
             ![i].progress = tokenCount,
             ![i].lr = LearningRate(args_.lr, tokenCount, Budget),
             ![i].localTokenCount = n,
             ![i].tokensRead = IF @ + g.ntokens < TokensReadCap
                               THEN @ + g.ntokens ELSE TokensReadCap,
             ![i].pos = g.to,
             ![i].bytes = @ \cup (g.from .. (g.to - 1)),
             ![i].rewinds = IF g.rewound /\ @ < 2 THEN @ + 1 ELSE @,
             ![i].updated = IssuesUpdate(args_.model, g.ntokens),
             ![i].pcw = IF n >= args_.lrUpdateRate THEN "add" ELSE "while"]
    /\ UNCHANGED <<tokenCount, trainUnchanged>>

\* lines 263-275: the counter is read a second time for `progress`
Iterate(i) ==
    /\ worker[i].pcw = "body"
    /\ LET w == worker[i]
           g == GetLine(corpus, w.pos)
           n == w.localTokenCount + g.ntokens
       IN  worker' = [worker EXCEPT
             ![i].progress = tokenCount,
             ![i].lr = LearningRate(args_.lr, tokenCount, Budget),
             ![i].localTokenCount = n,
             ![i].tokensRead = IF @ + g.ntokens < TokensReadCap
                               THEN @ + g.ntokens ELSE TokensReadCap,
             ![i].pos = g.to,
             ![i].bytes = @ \cup (g.from .. (g.to - 1)),
             ![i].rewinds = IF g.rewound /\ @ < 2 THEN @ + 1 ELSE @,
             ![i].updated = IssuesUpdate(args_.model, g.ntokens),
             ![i].pcw = IF n > args_.lrUpdateRate THEN "add" ELSE "while"]
    /\ UNCHANGED <<tokenCount, trainUnchanged>>

\* faulty variant: every worker reports
ReportByAnyWorker(w, i) == [w EXCEPT !.periodic = args_.verbose > 1]

\* lines 278-280: the periodic report of worker 0; periodic tells whether the
\* current iteration has called printInfo
Report(w, i) == [w EXCEPT !.periodic = (i = 0 /\ args_.verbose > 1)]

\* faulty variant: the local count is added and not reset
AddKeepsLocal(i) ==
    /\ worker[i].pcw = "add"
    /\ atomicAdd
    /\ tokenCount' = tokenCount + worker[i].localTokenCount
    /\ worker' = [worker EXCEPT ![i] = [Report(@, i) EXCEPT !.pcw = "while"]]
    /\ UNCHANGED trainUnchanged

\* lines 276-281 when the addition is indivisible
Add(i) ==
    /\ worker[i].pcw = "add"
    /\ atomicAdd
    /\ tokenCount' = tokenCount + worker[i].localTokenCount
    /\ worker' = [worker EXCEPT
          ![i] = [Report(@, i) EXCEPT !.localTokenCount = 0, !.pcw = "while"]]
    /\ UNCHANGED trainUnchanged

\* line 276 otherwise: first the counter is read ...
Load(i) ==
    /\ worker[i].pcw = "add"
    /\ ~atomicAdd
    /\ worker' = [worker EXCEPT ![i].loaded = tokenCount, ![i].pcw = "store"]
    /\ UNCHANGED <<tokenCount, trainUnchanged>>

\* faulty variant: the local count is assigned to the counter, not added
StoreAssign(i) ==
    /\ worker[i].pcw = "store"
    /\ tokenCount' = worker[i].localTokenCount
    /\ worker' = [worker EXCEPT
          ![i] = [Report(@, i) EXCEPT !.localTokenCount = 0, !.loaded = 0,
                                      !.pcw = "while"]]
    /\ UNCHANGED trainUnchanged

\* ... then the sum is written back (lines 276-281)
Store(i) ==
    /\ worker[i].pcw = "store"
    /\ tokenCount' = worker[i].loaded + worker[i].localTokenCount
    /\ worker' = [worker EXCEPT
          ![i] = [Report(@, i) EXCEPT !.localTokenCount = 0, !.loaded = 0,
                                      !.pcw = "while"]]
    /\ UNCHANGED trainUnchanged

\* the progress 1.0 of line 284, as <<numerator, denominator>>
FullProgress == <<1, 1>>

\* lines 283-287; final lists the progress values of the reports made here
ThreadExit(i) ==
    /\ worker[i].pcw = "exit"
    /\ worker' = [worker EXCEPT
          ![i].final = IF i = 0 /\ args_.verbose > 0
                       THEN Append(@, FullProgress) ELSE @,
          ![i].pcw = "done"]
    /\ UNCHANGED <<tokenCount, trainUnchanged>>

WorkerNext(i) ==
    \/ ThreadStart(i)
    \/ LoopTest(i)
    \/ Iterate(i)
    \/ Add(i)
    \/ Load(i)
    \/ Store(i)
    \/ ThreadExit(i)

MainNext ==
    \/ TrainSetup
    \/ Spawn
    \/ Join
    \/ MakeModel
    \/ SaveModel
    \/ SaveVectors

Next == MainNext \/ \E i \in Threads : WorkerNext(i)

Init == InitTrain

Spec == Init /\ [][Next]_vars

\* the scheduler runs every thread that can take a step
Fairness == WF_vars(MainNext) /\ \A i \in Threads : WF_vars(WorkerNext(i))

FairSpec == Spec /\ Fairness

(***************************************************************************)
(* Properties of a train run.                                              *)
(***************************************************************************)
Started(i) == worker[i].pcw \notin {"none", "start"}

\* C1: with the threads scheduled fairly and every getLine returning at least
\* one token, once train starts its workers every worker leaves its loop and
\* train gets past the join of all of them, also when the addition to the
\* shared counter is a read followed by a write.
C1_TrainingStops == (pc = "spawn") ~> (pc = "model")

C1_Witness ==
    /\ pc = "model"
    /\ ~atomicAdd
    /\ args_.thread = MaxThread
    /\ \A i \in Threads : worker[i].pcw = "done" /\ worker[i].bytes # {}

\* the optimizer that train leaves behind
C2_TrainedModelConfigured ==
    model_.made =>
        /\ model_.threadId = 0
        /\ model_.wi = input_.id
        /\ model_.wo = output_.id
        /\ model_.counts = TargetType(args_.model)

\* the optimizer that loadModel leaves behind
C2_LoadedModelConfigured ==
    pers.phase = "loaded" =>
        /\ pers.loaded.model.made
        /\ pers.loaded.model.threadId = 0
        /\ pers.loaded.model.wi = pers.loaded.input.id
        /\ pers.loaded.model.wo = pers.loaded.output.id
        /\ pers.loaded.model.counts = TargetType(pers.loaded.args.model)

\* C2: the canonical optimizer, after train has joined its workers and
\* equally after loadModel, is the optimizer of thread id 0, bound to the
\* current input and output matrices, with its target counts set from the
\* label counts (supervised) or the word counts (otherwise).
C2_CanonicalModelConfigured == C2_TrainedModelConfigured /\ C2_LoadedModelConfigured

\* C4: every learning rate passed to an optimizer update is
\* baseLR * (1 - progress) with progress in [0, 1], hence in [0, baseLR]
\* (rates are numerators over Budget).
C4_LearningRateInRange ==
    \A i \in Threads :
        worker[i].updated =>
            /\ worker[i].progress >= 0
            /\ worker[i].progress <= Budget
            /\ worker[i].lr = args_.lr * (Budget - worker[i].progress)
            /\ worker[i].lr >= 0
            /\ worker[i].lr <= args_.lr * Budget

\* C5: when train has ended in a fatal error no worker is running and
\* neither the .bin file nor the .vec file has been written.
C5_NoPartialResult ==
    pc = "exit" =>
        /\ \A i \in Threads : worker[i].pcw \in {"none", "done"}
        /\ disk.bin = <<>>
        /\ ~disk.vec

Created == {i \in Threads : worker[i].pcw # "none"}

\* train has got past the two loops of lines 368-373
PastJoin == pc \in {"model", "saveModel", "saveVectors", "done"}

\* C16: train creates the workers 0..thread-1 and no other, all of them
\* before it joins one; it makes its optimizer and calls saveModel only when
\* every worker has been joined, so that no worker runs once saving has
\* begun; saveModel is called once; saveVectors is called, after saveModel
\* has written the model, exactly when the objective is not supervised.
C16_WorkersThenSave ==
    /\ Created = 0 .. (nthreads - 1)
    /\ nthreads <= args_.thread
    /\ njoined <= nthreads
    /\ (njoined > 0 \/ pc = "join" \/ PastJoin) => nthreads = args_.thread
    /\ (PastJoin \/ model_.made \/ disk.saveModelCalls > 0) =>
          /\ njoined = args_.thread
          /\ \A i \in Created : worker[i].pcw = "done"
    /\ disk.saveModelCalls <= 1
    /\ disk.saveVectorsCalls <= 1
    /\ pc \in {"saveVectors", "done"} =>
          disk.saveModelCalls = 1 /\ disk.bin # <<>> /\ model_.made
    /\ disk.saveVectorsCalls = 1 =>
          args_.model # "sup" /\ disk.saveModelCalls = 1 /\ disk.bin # <<>>
    /\ pc = "saveVectors" => args_.model # "sup" /\ disk.saveVectorsCalls = 0
    /\ pc = "done" =>
          disk.saveVectorsCalls = (IF args_.model # "sup" THEN 1 ELSE 0)

C16_Witness ==
    /\ pc = "done"
    /\ args_.thread = MaxThread
    /\ args_.model = "cbow"
    /\ nthreads = MaxThread
    /\ njoined = MaxThread
    /\ disk.saveModelCalls = 1
    /\ disk.saveVectorsCalls = 1
    /\ \A i \in Threads : worker[i].tokensRead > 0

\* the step is worker i adding to the global counter
Flushes(i) ==
    /\ worker[i].localTokenCount > 0
    /\ worker'[i].localTokenCount = 0
    /\ worker[i].pcw \in {"add", "store"}

\* the value worker i adds its local count to: the counter, or what the
\* worker read of it when the addition is a read and a write
Addend(i) == IF atomicAdd THEN tokenCount ELSE worker[i].loaded

\* at the start of an iteration, and outside the loop, a worker holds at most
\* lrUpdateRate tokens; a worker that is about to add holds more
LocalCountWithinRate ==
    \A i \in Threads :
        /\ worker[i].pcw \in {"while", "body", "exit", "done"} =>
              worker[i].localTokenCount <= args_.lrUpdateRate
        /\ worker[i].pcw \in {"add", "store"} =>
              worker[i].localTokenCount > args_.lrUpdateRate

\* the counter is written only by a worker that flushes, which adds its whole
\* local count and goes on with none; leaving the loop writes nothing
FlushStep ==
    /\ tokenCount' # tokenCount => \E i \in Threads : Flushes(i)
    /\ \A i \in Threads :
          /\ Flushes(i) =>
                /\ worker[i].localTokenCount > args_.lrUpdateRate
                /\ tokenCount' = Addend(i) + worker[i].localTokenCount
          /\ worker[i].pcw \in {"exit", "done"} =>
                /\ worker'[i].localTokenCount = worker[i].localTokenCount
                /\ worker'[i].pcw \in {"exit", "done"}
                /\ tokenCount' # tokenCount => \E j \in Threads \ {i} : Flushes(j)

\* C17: a worker adds to the global counter only in an iteration in which its
\* local count is greater than lrUpdateRate; it adds the whole local count
\* and resets it to 0, so that a worker starts every iteration with at most
\* lrUpdateRate tokens; a worker that has left the loop keeps what it holds
\* and never adds it.
C17_FlushAboveRate == []LocalCountWithinRate /\ [][FlushStep]_vars

C17_Witness ==
    /\ args_.lrUpdateRate = MaxLrUpdateRate
    /\ worker[0].pcw = "done"
    /\ worker[0].localTokenCount = MaxLrUpdateRate
    /\ worker[0].tokensRead > worker[0].localTokenCount
    /\ tokenCount > 0

\* C19: no worker but worker 0 reports; worker 0 makes a periodic report only
\* in an iteration in which it has flushed its local count, and only with
\* verbose > 1; after its loop it makes one final report, with progress 1.0,
\* exactly when verbose > 0.
C19_ReportsOfWorkerZero ==
    \A i \in Threads :
        /\ i # 0 => ~worker[i].periodic /\ worker[i].final = <<>>
        /\ worker[i].periodic =>
              /\ i = 0
              /\ args_.verbose > 1
              /\ worker[i].pcw = "while"
              /\ worker[i].localTokenCount = 0
              /\ worker[i].tokensRead > 0
        /\ worker[i].pcw # "done" => worker[i].final = <<>>
        /\ (worker[i].pcw = "done" /\ i = 0) =>
              worker[i].final = (IF args_.verbose > 0 THEN <<FullProgress>> ELSE <<>>)

C19_Witness ==
    /\ args_.verbose = 2
    /\ args_.thread = MaxThread
    /\ worker[0].periodic
    /\ worker[1].pcw = "while"
    /\ worker[1].localTokenCount = 0
    /\ worker[1].tokensRead > 0

\* the tokens the workers hold, and the tokens getLine has returned
RECURSIVE SumOver(_, _)
SumOver(f, S) ==
    IF S = {} THEN 0
    ELSE LET x == CHOOSE y \in S : TRUE IN f[x] + SumOver(f, S \ {x})

Unflushed == SumOver([i \in Threads |-> worker[i].localTokenCount], Threads)

TokensReturned == SumOver([i \in Threads |-> worker[i].tokensRead], Threads)

AllExited ==
    /\ nthreads = args_.thread
    /\ nthreads > 0
    /\ \A i \in Created : worker[i].pcw = "done"

\* with an indivisible addition: no token is lost or counted twice, and when
\* all workers have exited the counter has reached the budget
TokensConserved ==
    atomicAdd =>
        /\ tokenCount + Unflushed = TokensReturned
        /\ AllExited => tokenCount >= args_.epoch * dict_.ntokens

\* C20: when the flush is an atomic add, in every state of a train run the
\* global counter plus the local counts not yet flushed is the number of
\* tokens all getLine calls have returned, the counter never decreases, and
\* it is at least epoch * ntokens once all workers have exited.
C20_TokenAccounting ==
    []TokensConserved /\ [][atomicAdd => tokenCount' >= tokenCount]_vars

C20_Witness ==
    /\ atomicAdd
    /\ args_.thread = MaxThread
    /\ AllExited
    /\ \A i \in Threads : worker[i].tokensRead > 0
    /\ Unflushed > 0
    /\ tokenCount > args_.epoch * dict_.ntokens

\* C20, the other half: when the flush is a read and a write, a worker can be
\* about to write a value below the counter ...
C20_CounterAboutToDecrease ==
    /\ ~atomicAdd
    /\ \E i \in Threads :
          /\ worker[i].pcw = "store"
          /\ worker[i].loaded + worker[i].localTokenCount < tokenCount

\* ... and tokens that getLine returned can be missing from the total
C20_TokensLost ==
    /\ ~atomicAdd
    /\ tokenCount + Unflushed < TokensReturned

(***************************************************************************)
(* The Corpus Partitioner on its own: the offsets of line 250 for a file   *)
(* of `size` bytes and `nthr` workers, computed worker by worker.          *)
(***************************************************************************)
TrainOff ==
    /\ args_ = [thread |-> 0]
    /\ atomicAdd = TRUE
    /\ dict_ = [ntokens |-> 0, nwords |-> 0, nlabels |-> 0]
    /\ input_ = NoMatrix
    /\ output_ = NoMatrix
    /\ model_ = NoModel
    /\ tokenCount = 0
    /\ pc = "off"
    /\ nthreads = 0
    /\ njoined = 0
    /\ worker = [i \in Threads |-> NoWorker]
    /\ corpus = <<>>
    /\ disk = [bin |-> <<>>, vec |-> FALSE, saveModelCalls |-> 0,
               saveVectorsCalls |-> 0]

InitPart ==
    /\ TrainOff
    /\ \E size \in 0 .. MaxFileSize, nthr \in 1 .. MaxWorkers :
          part = [phase |-> "seek", size |-> size, nthr |-> nthr, offs |-> <<>>]
    /\ pred = [phase |-> "off"]
    /\ pers = [phase |-> "off"]
    /\ obj = [phase |-> "off"]
    /\ tst = [phase |-> "off"]
    /\ imp = [phase |-> "off"]
    /\ qry = [phase |-> "off"]

\* the next worker (0-indexed) computes its offset
Seek ==
    /\ part.phase = "seek"
    /\ Len(part.offs) < part.nthr
    /\ part' = [part EXCEPT
          !.offs = Append(@, Offset(Len(part.offs), part.size, part.nthr))]
    /\ UNCHANGED <<trainVars, pred, pers, obj, tst, imp, qry>>

SpecPart == InitPart /\ [][Seek]_vars

\* C6: the offsets start at 0, never decrease from one worker to the next,
\* and the last one lies inside a non-empty file.
C6_Offsets ==
    part.phase = "seek" =>
        LET o == part.offs
        IN  /\ (Len(o) >= 1 => o[1] = 0)
            /\ \A k \in 1 .. (Len(o) - 1) : o[k] <= o[k + 1]
            /\ (Len(o) = part.nthr /\ part.size > 0 => o[part.nthr] < part.size)

C6_Witness ==
    /\ part.phase = "seek"
    /\ part.nthr >= 3
    /\ Len(part.offs) = part.nthr
    /\ part.size > part.nthr
    /\ part.size % part.nthr # 0

(***************************************************************************)
(* The objectives (lines 104-149).  Each is an operator from the line, the *)
(* label set and the values drawn from model.rng to the sequence of        *)
(* Model::update calls it makes; an update is [input, target, lr].         *)
(* Indices are 0-based as in the code: position w is line[w + 1].          *)
(***************************************************************************)
\* all sequences over S of length 0..n
SeqsUpTo(S, n) == UNION {[1 .. k -> S] : k \in 0 .. n}

Range(f) == {f[x] : x \in DOMAIN f}

\* Dictionary::getNgrams(id): the id of the word itself followed by the
\* bucket row of its subwords (rows beyond the words)
GetNgrams(id) == <<id, MaxTokenId + 1 + (id % 2)>>

Update(input, target, lr) == [input |-> input, target |-> target, lr |-> lr]

\* faulty variant: only the label set is tested
SupervisedAnyLine(lr, line, labels, i) ==
    IF Len(labels) = 0 THEN <<>>
    ELSE <<Update(line, labels[i + 1], lr)>>

\* lines 104-113; i is the value drawn from uniform(0, labels.size() - 1)
Supervised(lr, line, labels, i) ==
    IF Len(labels) = 0 \/ Len(line) = 0 THEN <<>>
    ELSE <<Update(line, labels[i + 1], lr)>>

\* lines 124-131: the loop over c, from c upwards, appending to bow
RECURSIVE CbowWindow(_, _, _, _, _)
CbowWindow(line, w, c, boundary, bow) ==
    IF c > boundary THEN bow
    ELSE IF c # 0 /\ w + c >= 0 /\ w + c < Len(line)
         THEN CbowWindow(line, w, c + 1, boundary, bow \o GetNgrams(line[w + c + 1]))
         ELSE CbowWindow(line, w, c + 1, boundary, bow)

\* faulty variant: the window stops one position short on the right
RECURSIVE CbowFrom(_, _, _, _)
CbowShortWindow(lr, line, radii, w) ==
    IF w >= Len(line) THEN <<>>
    ELSE <<Update(CbowWindow(line, w, -radii[w + 1], radii[w + 1] - 1, <<>>),
                  line[w + 1], lr)>>
         \o CbowFrom(lr, line, radii, w + 1)

\* lines 120-134: the loop over w, from w upwards; radii[w + 1] is the value
\* drawn from uniform(1, ws) at position w
CbowFrom(lr, line, radii, w) ==
    IF w >= Len(line) THEN <<>>
    ELSE <<Update(CbowWindow(line, w, -radii[w + 1], radii[w + 1], <<>>),
                  line[w + 1], lr)>>
         \o CbowFrom(lr, line, radii, w + 1)

\* lines 115-135
Cbow(lr, line, radii) == CbowFrom(lr, line, radii, 0)

\* faulty variant: only the positions after w are taken as context
RECURSIVE SkipgramWindow(_, _, _, _, _, _)
SkipgramForwardOnly(lr, line, w, c, boundary, ngrams) ==
    IF c > boundary THEN <<>>
    ELSE IF c > 0 /\ w + c < Len(line)
         THEN <<Update(ngrams, line[w + c + 1], lr)>>
              \o SkipgramWindow(lr, line, w, c + 1, boundary, ngrams)
         ELSE SkipgramWindow(lr, line, w, c + 1, boundary, ngrams)

\* lines 143-147: the loop over c
SkipgramWindow(lr, line, w, c, boundary, ngrams) ==
    IF c > boundary THEN <<>>
    ELSE IF c # 0 /\ w + c >= 0 /\ w + c < Len(line)
         THEN <<Update(ngrams, line[w + c + 1], lr)>>
              \o SkipgramWindow(lr, line, w, c + 1, boundary, ngrams)
         ELSE SkipgramWindow(lr, line, w, c + 1, boundary, ngrams)

\* faulty variant: the input is the word alone, without its subword n-grams
RECURSIVE SkipgramFrom(_, _, _, _)
SkipgramWordOnly(lr, line, radii, w) ==
    IF w >= Len(line) THEN <<>>
    ELSE SkipgramWindow(lr, line, w, -radii[w + 1], radii[w + 1],
                        <<line[w + 1]>>)
         \o SkipgramFrom(lr, line, radii, w + 1)

\* lines 140-148: the loop over w
SkipgramFrom(lr, line, radii, w) ==
    IF w >= Len(line) THEN <<>>
    ELSE SkipgramWindow(lr, line, w, -radii[w + 1], radii[w + 1],
                        GetNgrams(line[w + 1]))
         \o SkipgramFrom(lr, line, radii, w + 1)

\* lines 137-149
Skipgram(lr, line, radii) == SkipgramFrom(lr, line, radii, 0)

PartOff == part = [phase |-> "off"]
PredOff == pred = [phase |-> "off"]
PersOff == pers = [phase |-> "off"]
ObjOff == obj = [phase |-> "off"]
TstOff == tst = [phase |-> "off"]
ImpOff == imp = [phase |-> "off"]
QryOff == qry = [phase |-> "off"]

InitObj ==
    /\ TrainOff
    /\ PartOff
    /\ PredOff
    /\ PersOff
    /\ TstOff
    /\ ImpOff
    /\ QryOff
    /\ \E line \in SeqsUpTo(1 .. MaxTokenId, MaxLineLen),
          labels \in SeqsUpTo(1 .. MaxLabelSet, MaxLabelSet),
          ws \in 1 .. MaxWs :
          obj = [phase |-> "call", ws |-> ws, line |-> line, labels |-> labels,
                 kind |-> "none", radii |-> <<>>, updates |-> <<>>,
                 sgUpdates |-> <<>>]

\* supervised(model, lr, line, labels) is called
CallSupervised ==
    /\ obj.phase = "call"
    /\ \E i \in 0 .. (IF Len(obj.labels) = 0 THEN 0 ELSE Len(obj.labels) - 1) :
          obj' = [obj EXCEPT !.phase = "done", !.kind = "sup",
                             !.updates = Supervised(1, obj.line, obj.labels, i)]
    /\ UNCHANGED <<trainVars, part, pred, pers, tst, imp, qry>>

\* cbow(model, lr, line) is called
CallCbow ==
    /\ obj.phase = "call"
    /\ \E radii \in [1 .. Len(obj.line) -> 1 .. obj.ws] :
          obj' = [obj EXCEPT !.phase = "done", !.kind = "cbow", !.radii = radii,
                             !.updates = Cbow(1, obj.line, radii)]
    /\ UNCHANGED <<trainVars, part, pred, pers, tst, imp, qry>>

\* skipgram(model, lr, line) is called
CallSkipgram ==
    /\ obj.phase = "call"
    /\ \E radii \in [1 .. Len(obj.line) -> 1 .. obj.ws] :
          obj' = [obj EXCEPT !.phase = "done", !.kind = "sg", !.radii = radii,
                             !.updates = Skipgram(1, obj.line, radii)]
    /\ UNCHANGED <<trainVars, part, pred, pers, tst, imp, qry>>

\* cbow and skipgram are called on the same line, both models drawing the
\* same radii; the updates of cbow and those of skipgram are kept apart
CallBoth ==
    /\ obj.phase = "call"
    /\ \E radii \in [1 .. Len(obj.line) -> 1 .. obj.ws] :
          obj' = [obj EXCEPT !.phase = "done", !.kind = "both", !.radii = radii,
                             !.updates = Cbow(1, obj.line, radii),
                             !.sgUpdates = Skipgram(1, obj.line, radii)]
    /\ UNCHANGED <<trainVars, part, pred, pers, tst, imp, qry>>

NextObj == CallSupervised \/ CallCbow \/ CallSkipgram \/ CallBoth

SpecObj == InitObj /\ [][NextObj]_vars

\* C9: supervised makes no update when the line or the label set is empty,
\* and otherwise exactly one, whose input is the whole line and whose target
\* is one of the given labels.
C9_Supervised ==
    (obj.phase = "done" /\ obj.kind = "sup") =>
        IF obj.line = <<>> \/ obj.labels = <<>>
        THEN obj.updates = <<>>
        ELSE /\ Len(obj.updates) = 1
             /\ obj.updates[1].input = obj.line
             /\ obj.updates[1].target \in Range(obj.labels)

C9_Witness ==
    /\ obj.phase = "done"
    /\ obj.kind = "sup"
    /\ Len(obj.line) >= 2
    /\ Len(obj.labels) >= 2
    /\ Len(obj.updates) = 1
    /\ obj.updates[1].target = obj.labels[2]

\* the line positions (1-based) inside the window of 1-based position p
Context(p, radius, len) ==
    {q \in 1 .. len : q # p /\ q - p <= radius /\ p - q <= radius}

\* C10: cbow makes one update per line position, in the order of the
\* positions; the update of position w has target line[w] and an input whose
\* members are the n-gram ids of the positions within radius(w) of w, w itself
\* excluded, clipped to the line (no member when there is no such position).
C10_Cbow ==
    (obj.phase = "done" /\ obj.kind = "cbow") =>
        /\ Len(obj.updates) = Len(obj.line)
        /\ \A p \in 1 .. Len(obj.line) :
              /\ obj.updates[p].target = obj.line[p]
              /\ Range(obj.updates[p].input) =
                    UNION {Range(GetNgrams(obj.line[q])) :
                              q \in Context(p, obj.radii[p], Len(obj.line))}

C10_Witness ==
    /\ obj.phase = "done"
    /\ obj.kind = "cbow"
    /\ Len(obj.line) = MaxLineLen
    /\ obj.line[1] # obj.line[MaxLineLen]
    /\ obj.radii[1] = 1
    /\ obj.radii[MaxLineLen] >= 2
    /\ Len(obj.updates) = MaxLineLen

\* C11 as stated: on every line, also one of length 0 or 1, skipgram issues
\* at least as many updates as cbow does with the same radii.
C11_SkipgramAtLeastCbow ==
    (obj.phase = "done" /\ obj.kind = "both") =>
        Len(obj.sgUpdates) >= Len(obj.updates)

\* C11 amended: skipgram issues at least as many updates as cbow with the
\* same radii on every line whose length is not 1; on a line of one token
\* cbow issues one update (with an empty input) and skipgram issues none.
C11_SkipgramAtLeastCbowButOneToken ==
    (obj.phase = "done" /\ obj.kind = "both") =>
        IF Len(obj.line) = 1
        THEN Len(obj.updates) = 1 /\ obj.updates[1].input = <<>>
             /\ Len(obj.sgUpdates) = 0
        ELSE Len(obj.sgUpdates) >= Len(obj.updates)

C11_Witness ==
    /\ obj.phase = "done"
    /\ obj.kind = "both"
    /\ Len(obj.line) = MaxLineLen
    /\ Len(obj.updates) = MaxLineLen
    /\ Len(obj.sgUpdates) > Len(obj.updates)

\* the pairs (w, c), 0-based position and offset, that skipgram is to visit
Pairs(line, radii) ==
    {p \in (0 .. (Len(line) - 1)) \X ((0 - MaxWs) .. MaxWs) :
        /\ p[2] # 0
        /\ p[2] >= 0 - radii[p[1] + 1]
        /\ p[2] <= radii[p[1] + 1]
        /\ p[1] + p[2] >= 0
        /\ p[1] + p[2] < Len(line)}

\* p comes before q: smaller w, or the same w and smaller c
Before(p, q) == p[1] < q[1] \/ (p[1] = q[1] /\ p[2] < q[2])

\* C18: skipgram issues exactly one update per pair (w, c) with c # 0,
\* -radius(w) <= c <= radius(w) and 0 <= w + c < line length, whose input is
\* the subword n-grams of line[w] and whose target is line[w + c], in the
\* order of increasing w and then increasing c, and no other update.
C18_Skipgram ==
    (obj.phase = "done" /\ obj.kind = "sg") =>
        LET P == Pairs(obj.line, obj.radii)
        IN  /\ Len(obj.updates) = Cardinality(P)
            /\ \A p \in P :
                  obj.updates[1 + Cardinality({q \in P : Before(q, p)})] =
                      Update(GetNgrams(obj.line[p[1] + 1]),
                             obj.line[p[1] + p[2] + 1], 1)

C18_Witness ==
    /\ obj.phase = "done"
    /\ obj.kind = "sg"
    /\ Len(obj.line) = MaxLineLen
    /\ obj.line[1] # obj.line[2]
    /\ obj.radii[1] = 2
    /\ obj.radii[2] = 1
    /\ Len(obj.updates) >= 5

(***************************************************************************)
(* The streaming predict (lines 177-212).  An input line is the sequence   *)
(* of word ids that getLine and addNgrams make of it; the model has the    *)
(* labels 1..MaxLabelSet.                                                  *)
(***************************************************************************)
\* Model::predict(words, k, modelPredictions): the k best labels with their
\* scores, best first.  The ranking starts at a label that the words decide.
ModelPredict(words, k) ==
    LET n     == MaxLabelSet
        first == SumSeq(words) % n
        len   == IF k < n THEN k ELSE n
    IN  [j \in 1 .. len |-> <<0 - j, 1 + ((first + j - 1) % n)>>]

\* Dictionary::getLabel(id): the label string of a label id
GetLabel(id) == <<"__label__", id>>

\* lines 177-191: predict(in, k, predictions) on the next line `words`;
\* the value is the vector `predictions` when the call returns
Predict(words, k, predictions) ==
    IF words = <<>> THEN predictions
    ELSE LET mp == ModelPredict(words, k)
         IN  [j \in 1 .. Len(mp) |-> <<mp[j][1], GetLabel(mp[j][2])>>]

\* lines 197-210: the line written for the vector `predictions`
OutputLine(predictions, print_prob) ==
    IF predictions = <<>> THEN <<"n/a">>
    ELSE [j \in 1 .. Len(predictions) |->
            IF print_prob THEN <<predictions[j][2], <<"exp", predictions[j][1]>>>>
            ELSE <<predictions[j][2]>>]

InitPred ==
    /\ TrainOff
    /\ PartOff
    /\ PersOff
    /\ ObjOff
    /\ TstOff
    /\ ImpOff
    /\ QryOff
    /\ \E in \in SeqsUpTo(SeqsUpTo(1 .. MaxTokenId, 1), MaxExamples),
          k \in 1 .. MaxK, print_prob \in BOOLEAN :
          pred = [phase |-> "predict", in |-> in, k |-> k,
                  print_prob |-> print_prob, predictions |-> <<>>,
                  read |-> <<>>, out |-> <<>>]

\* lines 195-211: one iteration of the loop, taken while in.peek() != EOF
PredictLine ==
    /\ pred.phase = "predict"
    /\ pred.in # <<>>
    /\ LET words == Head(pred.in)
           p     == Predict(words, pred.k, pred.predictions)
       IN  pred' = [pred EXCEPT
             !.in = Tail(@),
             !.read = Append(@, words),
             !.predictions = p,
             !.out = Append(@, OutputLine(p, pred.print_prob))]
    /\ UNCHANGED <<trainVars, part, pers, obj, tst, imp, qry>>

SpecPred == InitPred /\ [][PredictLine]_vars

\* C3: one output line per input example read, and the line of an example
\* without tokens is n/a, whatever came before it.
C3_OneLinePerExample ==
    pred.phase = "predict" =>
        /\ Len(pred.out) = Len(pred.read)
        /\ \A j \in 1 .. Len(pred.read) :
              pred.read[j] = <<>> => pred.out[j] = <<"n/a">>

(***************************************************************************)
(* Persistence (lines 48-86).  A FastText object holds args, dict, input   *)
(* and output with their contents; a stream is a sequence of numbers.      *)
(* The serializers of the collaborators write their fields one after the   *)
(* other, without framing between the components.                          *)
(***************************************************************************)
ModelCode(model) == IF model = "cbow" THEN 1 ELSE IF model = "sg" THEN 2 ELSE 3

ModelName(code) == IF code = 1 THEN "cbow" ELSE IF code = 2 THEN "sg" ELSE "sup"

Drop(s, n) == SubSeq(s, n + 1, Len(s))

RECURSIVE Flatten(_)
Flatten(ss) == IF ss = <<>> THEN <<>> ELSE Head(ss) \o Flatten(Tail(ss))

\* Args::save and Args::load
ArgsSave(a) == <<a.dim, a.bucket, ModelCode(a.model)>>

ArgsLoad(s) ==
    [val  |-> [dim |-> s[1], bucket |-> s[2], model |-> ModelName(s[3])],
     rest |-> Drop(s, 3)]

\* Dictionary::save and Dictionary::load: the sizes, then every entry as
\* word, count, type (0 = word, 1 = label)
EntrySave(e) == <<e.word, e.count, IF e.type = "word" THEN 0 ELSE 1>>

DictSave(d) ==
    <<d.size, d.nwords, d.nlabels, d.ntokens>>
        \o Flatten([k \in 1 .. d.size |-> EntrySave(d.words[k])])

DictLoad(s) ==
    LET size == s[1]
        body == Drop(s, 4)
    IN  [val  |-> [size |-> size, nwords |-> s[2], nlabels |-> s[3], ntokens |-> s[4],
                   words |-> [k \in 1 .. size |->
                       [word  |-> body[3 * k - 2],
                        count |-> body[3 * k - 1],
                        type  |-> IF body[3 * k] = 0 THEN "word" ELSE "label"]]],
         rest |-> Drop(body, 3 * size)]

\* Matrix::save and Matrix::load: m, n, then the m * n values of data_
MatrixSave(mat) == <<mat.m, mat.n>> \o mat.data

MatrixLoad(s, id) ==
    [val  |-> [id |-> id, m |-> s[1], n |-> s[2],
               data |-> SubSeq(s, 3, 2 + s[1] * s[2])],
     rest |-> Drop(s, 2 + s[1] * s[2])]

\* what the serializer of component c writes for the object ft
Serialize(c, ft) ==
    IF c = "args" THEN ArgsSave(ft.args)
    ELSE IF c = "dict" THEN DictSave(ft.dict)
    ELSE IF c = "input" THEN MatrixSave(ft.input)
    ELSE MatrixSave(ft.output)

\* lines 54-57: the stream that saveModel writes
SaveModelStream(ft) ==
    Serialize(SaveOrder[1], ft) \o Serialize(SaveOrder[2], ft)
        \o Serialize(SaveOrder[3], ft) \o Serialize(SaveOrder[4], ft)

\* faulty variant: the two matrices are read in the other order
LoadModelOutputFirst(in) ==
    LET a  == ArgsLoad(in)
        d  == DictLoad(a.rest)
        wo == MatrixLoad(d.rest, 4)
        wi == MatrixLoad(wo.rest, 3)
    IN  [args |-> a.val, dict |-> d.val, input |-> wi.val, output |-> wo.val,
         model |-> SetTargetCounts(NewModel(wi.val, wo.val, 0), TargetType(a.val.model))]

\* lines 71-86: loadModel(std::istream&); the matrices are new objects
LoadModelStream(in) ==
    LET a  == ArgsLoad(in)
        d  == DictLoad(a.rest)
        wi == MatrixLoad(d.rest, 3)
        wo == MatrixLoad(wi.rest, 4)
    IN  [args |-> a.val, dict |-> d.val, input |-> wi.val, output |-> wo.val,
         model |-> SetTargetCounts(NewModel(wi.val, wo.val, 0), TargetType(a.val.model))]

\* Dictionary::getNgrams(word): the row of the word when it is in the
\* vocabulary (rows are 0-based, words come first), then the bucket rows of
\* its subwords, one per subword, so that a row can come more than once; the
\* word with code w has w subwords (the word 0 is too short to have any)
WordId(d, word) ==
    IF \E k \in 1 .. d.nwords : d.words[k].word = word
    THEN (CHOOSE k \in 1 .. d.nwords : d.words[k].word = word) - 1
    ELSE 0 - 1

GetNgramsOf(ft, word) ==
    (IF WordId(ft.dict, word) >= 0 THEN <<WordId(ft.dict, word)>> ELSE <<>>)
        \o [k \in 1 .. word |-> ft.dict.nwords + ((word + k) % ft.args.bucket)]

\* row i (0-based) of a matrix
Row(mat, i) == [j \in 1 .. mat.n |-> mat.data[i * mat.n + j]]

\* A Vector is kept as a sum and a divisor: its value is sum / div.
\* Vector vec(dim), as its first user leaves it
NewVector(dim) == [sum |-> [j \in 1 .. dim |-> 0], div |-> 1]

\* Vector::zero
VecZero(vec) == [sum |-> [j \in DOMAIN vec.sum |-> 0], div |-> 1]

\* Vector::addRow(mat, i), once for every member of rows, in their order
RECURSIVE VecAddRows(_, _, _)
VecAddRows(vec, mat, rows) ==
    IF rows = <<>> THEN vec
    ELSE VecAddRows([vec EXCEPT !.sum = [j \in DOMAIN @ |->
                                           @[j] + Row(mat, Head(rows))[j]]],
                    mat, Tail(rows))

\* Vector::mul(1.0 / size)
VecMul(vec, size) == [vec EXCEPT !.div = @ * size]

\* faulty variant: the vector is not cleared before the rows are added
GetVectorNoZero(vec, input, ngrams) ==
    LET v == VecAddRows(vec, input, ngrams)
    IN  IF Len(ngrams) > 0 THEN VecMul(v, Len(ngrams)) ELSE v

\* lines 23-29: getVector on the vector vec, given the n-grams of the word
GetVectorInto(vec, input, ngrams) ==
    LET v == VecAddRows(VecZero(vec), input, ngrams)
    IN  IF Len(ngrams) > 0 THEN VecMul(v, Len(ngrams)) ELSE v

\* lines 21-30: the vector that getVector leaves for the word
GetVector(ft, word) ==
    GetVectorInto(NewVector(ft.args.dim), ft.input, GetNgramsOf(ft, word))

MatrixValues == {0, 1}

Matrices(id, m, n) ==
    {[id |-> id, m |-> m, n |-> n, data |-> data] : data \in [1 .. m * n -> MatrixValues]}

\* a vocabulary of nw words (codes 1..nw) followed by nl labels
Vocabulary(nw, nl) ==
    [size |-> nw + nl, nwords |-> nw, nlabels |-> nl, ntokens |-> 2 * nw + nl,
     words |-> [k \in 1 .. (nw + nl) |->
        IF k <= nw THEN [word |-> k, count |-> 2, type |-> "word"]
        ELSE [word |-> MaxVocab + k, count |-> 1, type |-> "label"]]]

NoObject == [args |-> <<>>, dict |-> <<>>, input |-> NoMatrix, output |-> NoMatrix,
             model |-> NoModel]

InitPers ==
    /\ TrainOff
    /\ PartOff
    /\ PredOff
    /\ ObjOff
    /\ TstOff
    /\ ImpOff
    /\ QryOff
    /\ \E dim \in 1 .. MaxDim, bucket \in 1 .. MaxBucket, model \in Models,
          nw \in 0 .. MaxVocab, nl \in 0 .. 1 :
          \E wi \in Matrices(1, nw + bucket, dim),
             wo \in Matrices(2, IF model = "sup" THEN nl ELSE nw, dim) :
             pers = [phase |-> "trained",
                     saved |-> [args |-> [dim |-> dim, bucket |-> bucket, model |-> model],
                                dict |-> Vocabulary(nw, nl),
                                input |-> wi, output |-> wo,
                                model |-> NoModel],
                     stream |-> <<>>,
                     loaded |-> NoObject]

\* saveModel writes the object to the stream
DoSaveModel ==
    /\ pers.phase = "trained"
    /\ pers' = [pers EXCEPT !.phase = "saved", !.stream = SaveModelStream(pers.saved)]
    /\ UNCHANGED <<trainVars, part, pred, obj, tst, imp, qry>>

\* lines 61-69: loadModel(filename) in another object
DoLoadModel ==
    /\ pers.phase = "saved"
    /\ \E opens \in BOOLEAN :
          IF ~opens THEN pers' = [pers EXCEPT !.phase = "exit"]
          ELSE pers' = [pers EXCEPT !.phase = "loaded",
                                    !.loaded = LoadModelStream(pers.stream)]
    /\ UNCHANGED <<trainVars, part, pred, obj, tst, imp, qry>>

NextPers == DoSaveModel \/ DoLoadModel

SpecPers == InitPers /\ [][NextPers]_vars

\* the words asked of getVector: in the vocabulary, outside it, and 0
Probes == 0 .. (MaxVocab + 1)

SameMatrix(a, b) == a.m = b.m /\ a.n = b.n /\ a.data = b.data

\* C8: the stream holds args, dict, input, output in this order; loading it
\* gives back each component as it was saved, and getVector gives the same
\* vector for every word before the save and after the load.
C8_RoundTrip ==
    /\ pers.phase \in {"saved", "loaded"} =>
          pers.stream = ArgsSave(pers.saved.args) \o DictSave(pers.saved.dict)
                          \o MatrixSave(pers.saved.input)
                          \o MatrixSave(pers.saved.output)
    /\ pers.phase = "loaded" =>
          /\ pers.loaded.args = pers.saved.args
          /\ pers.loaded.dict = pers.saved.dict
          /\ SameMatrix(pers.loaded.input, pers.saved.input)
          /\ SameMatrix(pers.loaded.output, pers.saved.output)
          /\ \A word \in Probes :
                GetVector(pers.loaded, word) = GetVector(pers.saved, word)

C8_Witness ==
    /\ pers.phase = "loaded"
    /\ pers.saved.dict.nwords = MaxVocab
    /\ pers.saved.dict.nlabels = 1
    /\ \E k \in DOMAIN pers.saved.input.data : pers.saved.input.data[k] = 1
    /\ \E k \in DOMAIN pers.saved.output.data : pers.saved.output.data[k] = 1
    /\ GetVector(pers.loaded, 1).div = 2

(***************************************************************************)
(* FastText::test (lines 151-175).  An example of the labeled stream is    *)
(* the pair of sequences that getLine makes of one line: the word ids and  *)
(* the label ids.  The model has the labels 1..MaxLabelSet.                *)
(***************************************************************************)
\* Dictionary::addNgrams(line, n): for n >= 2 one hashed id is appended for
\* every pair of neighbouring words, nwords + hash % bucket; an empty line
\* stays empty
AddNgrams(line, n, nwords, bucket) ==
    IF n <= 1 THEN line
    ELSE line \o [j \in 1 .. (Len(line) - 1) |->
                    nwords + ((line[j] + line[j + 1]) % bucket)]

\* lines 162-166: how many of the predictions are among the labels
Hits(modelPredictions, labels) ==
    Cardinality({j \in 1 .. Len(modelPredictions) :
                    modelPredictions[j][2] \in Range(labels)})

\* faulty variant: a line is counted when it has tokens, labelled or not
TestCountUnlabelled(c, line, labels, k) ==
    IF Len(line) > 0
    THEN [precision |-> c.precision + Hits(ModelPredict(line, k), labels),
          nexamples |-> c.nexamples + 1,
          nlabels   |-> c.nlabels + Len(labels)]
    ELSE c

\* lines 159-169: the counters after a line, from the counters c before it
TestCount(c, line, labels, k) ==
    IF Len(labels) > 0 /\ Len(line) > 0
    THEN [precision |-> c.precision + Hits(ModelPredict(line, k), labels),
          nexamples |-> c.nexamples + 1,
          nlabels   |-> c.nlabels + Len(labels)]
    ELSE c

\* lines 171-174: the three values printed; a quotient is kept as the pair
\* <<numerator, denominator>> (a denominator 0 prints as not-a-number)
TestOutput(c, k) ==
    [P |-> <<c.precision, k * c.nexamples>>,
     R |-> <<c.precision, c.nlabels>>,
     N |-> c.nexamples]

TestExamples ==
    [line   : SeqsUpTo(1 .. MaxTokenId, MaxTestLineLen),
     labels : SeqsUpTo(1 .. MaxLabelSet, MaxLabelSet)]

InitTest ==
    /\ TrainOff
    /\ PartOff
    /\ PredOff
    /\ PersOff
    /\ ObjOff
    /\ ImpOff
    /\ QryOff
    /\ \E left \in 0 .. MaxTestLines, k \in 1 .. MaxK,
          wordNgrams \in 1 .. MaxWordNgrams :
          tst = [phase |-> "test", left |-> left, k |-> k,
                 wordNgrams |-> wordNgrams,
                 c |-> [precision |-> 0, nexamples |-> 0, nlabels |-> 0],
                 read |-> <<>>, out |-> <<>>]

\* lines 156-170: one iteration of the loop, taken while in.peek() != EOF;
\* ex is the line that getLine reads
TestLine ==
    /\ tst.phase = "test"
    /\ tst.left > 0
    /\ \E ex \in TestExamples :
          LET line == AddNgrams(ex.line, tst.wordNgrams, MaxTokenId + 1, MaxBucket)
          IN  tst' = [tst EXCEPT
                !.left = @ - 1,
                !.read = Append(@, ex),
                !.c = TestCount(@, line, ex.labels, tst.k)]
    /\ UNCHANGED <<trainVars, part, pred, pers, obj, imp, qry>>

\* lines 171-174, at the end of the stream
TestReport ==
    /\ tst.phase = "test"
    /\ tst.left = 0
    /\ tst' = [tst EXCEPT !.phase = "reported", !.out = TestOutput(tst.c, tst.k)]
    /\ UNCHANGED <<trainVars, part, pred, pers, obj, imp, qry>>

NextTest == TestLine \/ TestReport

SpecTest == InitTest /\ [][NextTest]_vars

\* the lines read so far that have at least one token and one label
Counted == {j \in 1 .. Len(tst.read) :
               tst.read[j].line # <<>> /\ tst.read[j].labels # <<>>}

\* the top-k predictions for line j of the stream
PredictionsFor(j) ==
    ModelPredict(AddNgrams(tst.read[j].line, tst.wordNgrams,
                           MaxTokenId + 1, MaxBucket), tst.k)

\* f[1] + ... + f[n]
RECURSIVE SumTo(_, _)
SumTo(f, n) == IF n = 0 THEN 0 ELSE f[n] + SumTo(f, n - 1)

\* the predicted labels of the counted lines that are true labels of their line
TruePositives ==
    SumTo([j \in 1 .. Len(tst.read) |->
              IF j \in Counted THEN Hits(PredictionsFor(j), tst.read[j].labels)
              ELSE 0],
          Len(tst.read))

\* the number of true labels of the counted lines
TotalLabels ==
    SumTo([j \in 1 .. Len(tst.read) |->
              IF j \in Counted THEN Len(tst.read[j].labels) ELSE 0],
          Len(tst.read))

\* the counters are those of the counted lines, and the values reported at
\* the end of the stream are the two quotients
TestCountsAndQuotients ==
    /\ tst.phase \in {"test", "reported"} =>
          /\ tst.c.nexamples = Cardinality(Counted)
          /\ tst.c.precision = TruePositives
          /\ tst.c.nlabels = TotalLabels
    /\ tst.phase = "reported" =>
          /\ tst.out.N = Cardinality(Counted)
          /\ tst.out.P = <<TruePositives, tst.k * Cardinality(Counted)>>
          /\ tst.out.R = <<TruePositives, TotalLabels>>

\* every counted line has one true label, k = 1 and the top prediction of
\* every counted line is its label
AllTopOneMatch ==
    /\ tst.k = 1
    /\ \A j \in Counted :
          /\ Len(tst.read[j].labels) = 1
          /\ PredictionsFor(j)[1][2] = tst.read[j].labels[1]

\* the quotient <<numerator, denominator>> has the value 1
IsOne(q) == q[2] # 0 /\ q[1] = q[2]

\* C12 as stated: after any labeled stream nExamples is the number of lines
\* with a token and a label, truePositives the number of predicted labels of
\* those lines among their true labels, the values reported are
\* truePositives / (k * nExamples) and truePositives / totalLabels, and both
\* are 1 when every counted line has one true label, k = 1 and every top
\* prediction matches.
C12_TestReport ==
    /\ TestCountsAndQuotients
    /\ (tst.phase = "reported" /\ AllTopOneMatch) =>
          IsOne(tst.out.P) /\ IsOne(tst.out.R)

\* C12 amended: the same, with both values 1 only when at least one line was
\* counted; after a stream without a counted line both quotients are 0 / 0.
C12_TestReportOfCountedLines ==
    /\ TestCountsAndQuotients
    /\ (tst.phase = "reported" /\ AllTopOneMatch) =>
          IF Counted # {}
          THEN IsOne(tst.out.P) /\ IsOne(tst.out.R)
          ELSE tst.out.P = <<0, 0>> /\ tst.out.R = <<0, 0>>

C12_Witness ==
    /\ tst.phase = "reported"
    /\ Len(tst.read) = MaxTestLines
    /\ Cardinality(Counted) = MaxTestLines
    /\ AllTopOneMatch
    /\ tst.out.P = <<MaxTestLines, MaxTestLines>>
    /\ tst.out.R = <<MaxTestLines, MaxTestLines>>

(***************************************************************************)
(* FastText::loadVectors (lines 290-328) on the contents of the file.      *)
(* A vocabulary is the record of the persistence section; a token whose    *)
(* code is above MaxVocab carries the label prefix, so the vocabulary      *)
(* files it as a label.  The pretrained file is [open, dim, words]: the    *)
(* words it lists, in their order; its i-th row holds dim values that no   *)
(* other row holds.                                                        *)
(***************************************************************************)
IsLabelToken(word) == word > MaxVocab

\* Dictionary::add(word): a known entry is counted once more, a new one is
\* appended with count 1
DictAdd(d, word) ==
    IF \E k \in 1 .. d.size : d.words[k].word = word
    THEN [d EXCEPT !.words = [k \in 1 .. d.size |->
            IF d.words[k].word = word
            THEN [d.words[k] EXCEPT !.count = @ + 1] ELSE d.words[k]]]
    ELSE [d EXCEPT
            !.size = @ + 1,
            !.nwords = IF IsLabelToken(word) THEN @ ELSE @ + 1,
            !.nlabels = IF IsLabelToken(word) THEN @ + 1 ELSE @,
            !.words = Append(@, [word  |-> word, count |-> 1,
                                 type  |-> IF IsLabelToken(word) THEN "label"
                                           ELSE "word"])]

\* the order of Dictionary::threshold: words before labels, then the larger
\* count first
EntryLess(e1, e2) ==
    IF e1.type # e2.type THEN e1.type = "word" ELSE e1.count > e2.count

\* Dictionary::threshold(t, tl): words counted less than t and labels counted
\* less than tl are dropped, the rest is sorted and the ids are given anew.
\* The sort leaves the order of equal entries open: rev tells which of two
\* equal entries comes first.
DictThreshold(d, t, tl, rev) ==
    LET keep == {k \in 1 .. d.size :
                    IF d.words[k].type = "word" THEN d.words[k].count >= t
                    ELSE d.words[k].count >= tl}
        before(j, k) ==
            \/ EntryLess(d.words[j], d.words[k])
            \/ /\ ~EntryLess(d.words[k], d.words[j])
               /\ IF rev THEN j > k ELSE j < k
        rank(k) == 1 + Cardinality({j \in keep : before(j, k)})
    IN  [d EXCEPT
            !.size = Cardinality(keep),
            !.nwords = Cardinality({k \in keep : d.words[k].type = "word"}),
            !.nlabels = Cardinality({k \in keep : d.words[k].type = "label"}),
            !.words = [r \in 1 .. Cardinality(keep) |->
                          d.words[CHOOSE k \in keep : rank(k) = r]]]

\* Dictionary::getId(word): the 0-based id of the entry, -1 when there is none
GetId(d, word) ==
    IF \E k \in 1 .. d.size : d.words[k].word = word
    THEN (CHOOSE k \in 1 .. d.size : d.words[k].word = word) - 1
    ELSE 0 - 1

\* Matrix(m, n) after uniform(1.0 / n): every cell holds a draw of its own,
\* written as a negative number (file values are not negative)
Uniform(id, m, n) ==
    [id |-> id, m |-> m, n |-> n, data |-> [k \in 1 .. m * n |-> 0 - k]]

\* lines 324-326: row idx (0-based) of the matrix is overwritten
SetRow(mat, idx, row) ==
    [mat EXCEPT !.data = [k \in 1 .. mat.m * mat.n |->
        IF k > idx * mat.n /\ k <= (idx + 1) * mat.n
        THEN row[k - idx * mat.n] ELSE mat.data[k]]]

\* line 312: the values read for row i (1-based) of a file of dimension dim
FileRow(i, dim) == [j \in 1 .. dim |-> (i - 1) * dim + j]

\* lines 306-314: the words i.. of the file are added to the vocabulary
RECURSIVE AddWords(_, _, _)
AddWords(d, words, i) ==
    IF i > Len(words) THEN d
    ELSE AddWords(DictAdd(d, words[i]), words, i + 1)

\* faulty variant: entry i is written to row i, not to the row of its word
RECURSIVE CopyRows(_, _, _, _)
CopyRowsByPosition(input, d, words, i) ==
    IF i > Len(words) THEN input
    ELSE IF i - 1 >= d.nwords THEN CopyRows(input, d, words, i + 1)
    ELSE CopyRows(SetRow(input, i - 1, FileRow(i, input.n)), d, words, i + 1)

\* lines 321-327: the rows i.. of the file are copied into the input matrix
CopyRows(input, d, words, i) ==
    IF i > Len(words) THEN input
    ELSE LET idx == GetId(d, words[i])
         IN  IF idx < 0 \/ idx >= d.nwords
             THEN CopyRows(input, d, words, i + 1)
             ELSE CopyRows(SetRow(input, idx, FileRow(i, input.n)), d, words, i + 1)

\* lines 290-328: the outcome of loadVectors for the file, the vocabulary d
\* and the configuration a
LoadVectorsFile(file, d, a, rev) ==
    IF ~file.open \/ file.dim # a.dim
    THEN [ok |-> FALSE, dict |-> d, input |-> NoMatrix]
    ELSE LET d2 == DictThreshold(AddWords(d, file.words, 1), 1, 0, rev)
             wi == Uniform(2, d2.nwords + a.bucket, a.dim)
         IN  [ok |-> TRUE, dict |-> d2,
              input |-> CopyRows(wi, d2, file.words, 1)]

\* the tokens a pretrained file may list: the word 0 (too short to have
\* subwords), the words 1..MaxVocab and one token with the label prefix
FileWords == 0 .. (MaxVocab + 1)

PretrainedFiles ==
    [open : BOOLEAN, dim : 1 .. (MaxDim + 1),
     words : SeqsUpTo(FileWords, MaxFileRows)]

InitImp ==
    /\ TrainOff
    /\ PartOff
    /\ PredOff
    /\ PersOff
    /\ ObjOff
    /\ TstOff
    /\ QryOff
    /\ \E dim \in 1 .. MaxDim, bucket \in 1 .. MaxBucket,
          file \in PretrainedFiles, nw \in 0 .. MaxVocab, nl \in 0 .. 1 :
          imp = [phase |-> "load",
                 args |-> [dim |-> dim, bucket |-> bucket],
                 file |-> file,
                 before |-> Vocabulary(nw, nl),
                 dict |-> Vocabulary(nw, nl),
                 input |-> NoMatrix]

\* loadVectors(filename) is called (line 352)
DoLoadVectors ==
    /\ imp.phase = "load"
    /\ \E rev \in BOOLEAN :
          LET lv == LoadVectorsFile(imp.file, imp.dict, imp.args, rev)
          IN  imp' = [imp EXCEPT
                !.phase = IF lv.ok THEN "loaded" ELSE "exit",
                !.dict = lv.dict,
                !.input = lv.input]
    /\ UNCHANGED <<trainVars, part, pred, pers, obj, tst, qry>>

SpecImp == InitImp /\ [][DoLoadVectors]_vars

\* the words the file lists (label tokens are no words)
ListedWords == {imp.file.words[i] : i \in 1 .. Len(imp.file.words)}
                  \ {w \in FileWords : IsLabelToken(w)}

\* the row the file gives for a word: the row of its last listing
ImportedRow(word) ==
    LET last == CHOOSE i \in 1 .. Len(imp.file.words) :
                   /\ imp.file.words[i] = word
                   /\ \A j \in (i + 1) .. Len(imp.file.words) :
                         imp.file.words[j] # word
    IN  FileRow(last, imp.file.dim)

\* the words of the vocabulary
WordsOf(d) == {d.words[k].word : k \in 1 .. d.nwords}

\* C13: after loadVectors on a file of the configured dimension the input
\* matrix has nwords + bucket rows, nwords counting the words of the
\* vocabulary after the insertion and the pruning; the row at the id of every
\* listed word is the row the file gives for it (the last one when the word
\* is listed more than once), so that getVector on a listed word whose only
\* n-gram is its own id returns that row; every other row, the bucket rows
\* among them, holds its random initial value.
C13_LoadVectors ==
    imp.phase = "loaded" =>
        LET ft   == [args |-> imp.args, dict |-> imp.dict, input |-> imp.input]
            rows == imp.dict.nwords + imp.args.bucket
            init == Uniform(2, rows, imp.args.dim)
        IN  /\ WordsOf(imp.dict) = WordsOf(imp.before) \cup ListedWords
            /\ imp.dict.nwords = Cardinality(WordsOf(imp.before) \cup ListedWords)
            /\ imp.input.m = rows
            /\ imp.input.n = imp.args.dim
            /\ Len(imp.input.data) = rows * imp.args.dim
            /\ \A w \in ListedWords :
                  /\ GetId(imp.dict, w) \in 0 .. (imp.dict.nwords - 1)
                  /\ Row(imp.input, GetId(imp.dict, w)) = ImportedRow(w)
                  /\ GetNgramsOf(ft, w) = <<GetId(imp.dict, w)>> =>
                        GetVector(ft, w) = [sum |-> ImportedRow(w), div |-> 1]
            /\ \A r \in 0 .. (rows - 1) :
                  (\A w \in ListedWords : GetId(imp.dict, w) # r) =>
                      Row(imp.input, r) = Row(init, r)

C13_Witness ==
    /\ imp.phase = "loaded"
    /\ imp.before.nwords = MaxVocab
    /\ imp.before.nlabels = 1
    /\ Len(imp.file.words) = MaxFileRows
    /\ imp.file.words[1] = MaxVocab
    /\ imp.file.words[2] = 0
    /\ GetId(imp.dict, MaxVocab) = 0
    /\ GetId(imp.dict, 0) = MaxVocab
    /\ Row(imp.input, 0) = FileRow(1, imp.args.dim)
    /\ GetVector([args |-> imp.args, dict |-> imp.dict, input |-> imp.input], 0)
          = [sum |-> FileRow(2, imp.args.dim), div |-> 1]

(***************************************************************************)
(* FastText::printVectors with wordVectors and textVectors (lines 214-246) *)
(* on a loaded object.  Standard input comes line by line; a line is the   *)
(* sequence of its words (codes as in the persistence section).  An output *)
(* line is [word, vec]: the word printed in front of the vector, if any;   *)
(* outs holds the output lines written for the input line read last.       *)
(***************************************************************************)
\* Dictionary::getLine on a line of text: the ids of the words that are in
\* the vocabulary, in their order; the other words are dropped
RECURSIVE GetLineIds(_, _)
GetLineIds(d, words) ==
    IF words = <<>> THEN <<>>
    ELSE (IF WordId(d, Head(words)) >= 0 THEN <<WordId(d, Head(words))>> ELSE <<>>)
            \o GetLineIds(d, Tail(words))

\* lines 227-235: the vector of one line, left in vec
TextVector(vec, ft, words) ==
    LET line == AddNgrams(GetLineIds(ft.dict, words), ft.args.wordNgrams,
                          ft.dict.nwords, ft.args.bucket)
        v    == VecAddRows(VecZero(vec), ft.input, line)
    IN  IF line # <<>> THEN VecMul(v, Len(line)) ELSE v

\* lines 217-220 for the words of one input line: the calls of getVector,
\* each with the vector as the call before left it
RECURSIVE WordVectorCalls(_, _, _)
WordVectorCalls(vec, ft, words) ==
    IF words = <<>> THEN <<>>
    ELSE LET ngrams == GetNgramsOf(ft, Head(words))
             v      == GetVectorInto(vec, ft.input, ngrams)
         IN  <<[word |-> Head(words), ngrams |-> ngrams, before |-> vec,
                after |-> v]>>
                \o WordVectorCalls(v, ft, Tail(words))

\* faulty variant: the text vectors are printed for the other models
PrintsTextVectorsUnlessSup(model) == model # "sup"

\* line 241: whether printVectors runs textVectors
PrintsTextVectors(model) == model = "sup"

\* an input matrix whose cells all differ
Counting(id, m, n) == [id |-> id, m |-> m, n |-> n, data |-> [k \in 1 .. m * n |-> k]]

StdinWords == 0 .. MaxVocab

\* the lines that standard input can hold
StdinLines == SeqsUpTo(StdinWords, MaxStdinLineLen)

InitQry ==
    /\ TrainOff
    /\ PartOff
    /\ PredOff
    /\ PersOff
    /\ ObjOff
    /\ TstOff
    /\ ImpOff
    /\ \E dim \in 1 .. MaxDim, bucket \in 1 .. MaxBucket, model \in Models,
          nw \in 0 .. MaxVocab :
       \* args_->wordNgrams is read by textVectors alone (line 228)
       \E wordNgrams \in IF PrintsTextVectors(model) THEN 1 .. MaxWordNgrams
                                                     ELSE {1} :
          qry = [phase |-> "print",
                 ft |-> [args |-> [dim |-> dim, bucket |-> bucket, model |-> model,
                                   wordNgrams |-> wordNgrams],
                         dict |-> Vocabulary(nw, IF model = "sup" THEN 1 ELSE 0),
                         input |-> Counting(1, nw + bucket, dim)],
                 input0 |-> Counting(1, nw + bucket, dim),
                 vec |-> NewVector(dim),
                 line |-> <<>>, outs |-> <<>>, calls |-> <<>>, nlines |-> 0]

\* lines 226-237: one iteration of the loop of textVectors
TextVectorsLine ==
    /\ qry.phase = "print"
    /\ PrintsTextVectors(qry.ft.args.model)
    /\ qry.nlines < MaxStdinLines
    /\ \E words \in StdinLines :
          \E v \in {TextVector(qry.vec, qry.ft, words)} :
              qry' = [qry EXCEPT
                !.vec = v,
                !.line = words,
                !.outs = <<[word |-> <<>>, vec |-> v]>>,
                !.calls = <<>>,
                !.nlines = @ + 1]
    /\ UNCHANGED <<trainVars, part, pred, pers, obj, tst, imp>>

\* lines 217-220: the iterations of the loop of wordVectors that read the
\* words of the next input line
WordVectorsLine ==
    /\ qry.phase = "print"
    /\ ~PrintsTextVectors(qry.ft.args.model)
    /\ qry.nlines < MaxStdinLines
    /\ \E words \in StdinLines :
          \E calls \in {WordVectorCalls(qry.vec, qry.ft, words)} :
              qry' = [qry EXCEPT
                !.vec = IF calls = <<>> THEN @ ELSE calls[Len(calls)].after,
                !.line = words,
                !.outs = [k \in 1 .. Len(calls) |->
                             [word |-> <<calls[k].word>>, vec |-> calls[k].after]],
                !.calls = calls,
                !.nlines = @ + 1]
    /\ UNCHANGED <<trainVars, part, pred, pers, obj, tst, imp>>

NextQry == TextVectorsLine \/ WordVectorsLine

SpecQry == InitQry /\ [][NextQry]_vars

\* the mean of the rows ids[1], ids[2], ... of the matrix, every member of
\* ids counted; the zero vector when there is none
MeanOfRows(mat, ids) ==
    [sum |-> [j \in 1 .. mat.n |->
                SumTo([k \in 1 .. Len(ids) |-> Row(mat, ids[k])[j]], Len(ids))],
     div |-> IF ids = <<>> THEN 1 ELSE Len(ids)]

\* C14: whatever the vector held, getVector leaves in it the mean of the
\* input rows of the word's n-gram ids, an id counted as often as it occurs,
\* and the zero vector when the word has no n-gram id; no row of the input
\* matrix changes.
C14_GetVector ==
    qry.phase = "print" =>
        /\ qry.ft.input = qry.input0
        /\ \A k \in 1 .. Len(qry.calls) :
              /\ qry.calls[k].after = MeanOfRows(qry.input0, qry.calls[k].ngrams)
              /\ qry.calls[k].ngrams = <<>> =>
                    qry.calls[k].after = NewVector(qry.ft.args.dim)

C14_Witness ==
    /\ qry.phase = "print"
    /\ Len(qry.calls) = 2
    /\ \E j \in DOMAIN qry.calls[1].before.sum : qry.calls[1].before.sum[j] # 0
    /\ \E j \in DOMAIN qry.calls[2].before.sum : qry.calls[2].before.sum[j] # 0
    /\ Len(qry.calls[1].ngrams) = 3
    /\ qry.calls[1].ngrams[2] = qry.calls[1].ngrams[3]
    /\ qry.calls[1].ngrams[1] # qry.calls[1].ngrams[2]
    /\ qry.calls[2].ngrams = <<>>

\* C15 as stated: printVectors on a cbow or skipgram model writes one vector
\* for every input line, the average of the input rows of the line's token
\* ids, the zero vector for an empty line.
C15_LineVectorsWhenUnsupervised ==
    (qry.phase = "print" /\ qry.ft.args.model \in {"cbow", "sg"}
        /\ qry.nlines > 0) =>
            qry.outs = <<[word |-> <<>>,
                          vec  |-> MeanOfRows(qry.input0,
                                      GetLineIds(qry.ft.dict, qry.line))]>>

\* C15 amended: printVectors on a supervised model writes one vector for
\* every input line, the average of the input rows of the line's token ids
\* (the ids of its words and of its word n-grams), the zero vector for a line
\* without ids; on a cbow or skipgram model it writes one line for every
\* input word, the word and the vector getVector gives for it.
C15_LineVectorsWhenSupervised ==
    (qry.phase = "print" /\ qry.nlines > 0) =>
        IF qry.ft.args.model = "sup"
        THEN qry.outs = <<[word |-> <<>>,
                           vec  |-> MeanOfRows(qry.input0,
                               AddNgrams(GetLineIds(qry.ft.dict, qry.line),
                                         qry.ft.args.wordNgrams,
                                         qry.ft.dict.nwords,
                                         qry.ft.args.bucket))]>>
        ELSE /\ Len(qry.outs) = Len(qry.line)
             /\ \A k \in 1 .. Len(qry.line) :
                   qry.outs[k] = [word |-> <<qry.line[k]>>,
                                  vec  |-> MeanOfRows(qry.input0,
                                              GetNgramsOf(qry.ft, qry.line[k]))]

C15_Witness ==
    /\ qry.phase = "print"
    /\ qry.ft.args.model = "sup"
    /\ qry.ft.args.wordNgrams = 2
    /\ qry.nlines = MaxStdinLines
    /\ Len(qry.outs) = 1
    /\ Len(qry.line) = 2
    /\ Len(GetLineIds(qry.ft.dict, qry.line)) = 2
    /\ qry.outs[1].vec.div = 3

====
